---- MODULE Spec2Model ----
(***************************************************************************)
(* DiPPER2: in silico primer testing (Primer_testing_parallelize.py) and   *)
(* the reduction of its result files to a Sensitivity / Specificity        *)
(* verdict (Summarize_results_module_improved.py).                         *)
(*                                                                         *)
(* A match record (one bed line of seqkit amplicon) is modelled by the two *)
(* things the code reads from it: the number of tab separated columns and  *)
(* the length of column 7, the amplicon.  A job is one seqkit subprocess   *)
(* over one assembly file; what the subprocess does (exit status, stdout)  *)
(* is an input.                                                            *)
(***************************************************************************)
EXTENDS Integers, Sequences, FiniteSets, TLC

(* ------------------------------ bounds -------------------------------- *)
\* largest number of assembly files in FUR.target / FUR.neighbour
MaxCount == 2
\* largest number of bed lines all jobs of one mismatch level print together
MaxLines == 2
\* largest number of result files of one role that run_tests finds
MaxFiles == 2

(* ------------------------- program constants -------------------------- *)
\* a bed line needs at least 7 columns (len(split_line) < 7 is skipped)
MinColumns == 7
\* the per-job deadline of the neighbour sweep, in seconds
NeighbourTimeout == 30
\* amplicon lengths a record can have
AmpLens == {7, 9}
\* for i in range(4) / for i in range(5)
TargetLevels == 0 .. 3
NeighbourLevels == 0 .. 4
Roles == {"target", "neighbour"}
Levels(role) == IF role = "target" THEN TargetLevels ELSE NeighbourLevels
\* Python's "NA" in a slot that otherwise holds a number
NA_NUM == 0 - 1
\* timeout=None
NoTimeout == 0 - 1
TimeoutOf_EveryRole(role) == NeighbourTimeout

TimeoutOf(role) == IF role = "neighbour" THEN NeighbourTimeout ELSE NoTimeout

(* ------------------------------ records ------------------------------- *)
Records ==
  {[ncols |-> MinColumns, amp |-> l] : l \in AmpLens}
    \cup {[ncols |-> MinColumns - 1, amp |-> 0]}

\* all sequences over S of length 0 .. n
SeqsUpTo(S, n) == UNION {[1 .. k -> S] : k \in 0 .. n}

Stdouts == SeqsUpTo(Records, MaxLines)

(* --------------------- the subprocess of one job ---------------------- *)
\* how a job ends: the assembly file cannot be opened or read; Popen or
\* communicate raises; the subprocess is still running at the deadline; it
\* is killed by the memory watchdog (exit code -9); it exits with a code
\* other than 0; it exits with code 0
ExitKinds == {"open_error", "raise", "timeout", "killed", "nonzero", "zero"}

\* what process_file_amplicon does: it raises OSError, returns None, or
\* returns the subprocess's stdout
RaisedResult == [raised |-> TRUE, none |-> FALSE, out |-> <<>>]
NoneResult == [raised |-> FALSE, none |-> TRUE, out |-> <<>>]
StrResult(out) == [raised |-> FALSE, none |-> FALSE, out |-> out]

process_file_amplicon(job, timeout) ==
  IF job.exit = "open_error" THEN RaisedResult
  ELSE IF job.exit = "timeout" /\ timeout # NoTimeout THEN NoneResult
  ELSE IF job.exit = "raise" THEN NoneResult
  ELSE StrResult(job.stdout)

\* the jobs of one level of one role whose stdout is in outs: only a job
\* with a deadline can run into it, and a job that never got to the end of
\* communicate has no stdout
JobsOver(role, outs) ==
  {j \in [exit : ExitKinds, stdout : outs] :
     /\ (j.exit = "timeout" => TimeoutOf(role) # NoTimeout)
     /\ (j.exit \in {"open_error", "raise", "timeout"} => j.stdout = <<>>)}

\* the jobs behind a result file: an OSError of one job ends the run before
\* the level's file is written
JobsOf(role) == {j \in JobsOver(role, Stdouts) : j.exit # "open_error"}

\* successful = [res for res in results if res is not None]
IsNotNone(res) == ~res.none
Successful(results) ==
  LET kept == SelectSeq(results, IsNotNone)
  IN  [i \in 1 .. Len(kept) |-> kept[i].out]

\* for line in out_seqk_target: file.write(line), read back with readlines()
FileLines(successful) ==
  LET text[i \in 0 .. Len(successful)] ==
        IF i = 0 THEN <<>> ELSE text[i - 1] \o successful[i]
  IN  text[Len(successful)]

\* pool.map over the level's jobs, in the order of the input files
PoolMap(jobs, timeout) ==
  [j \in 1 .. Len(jobs) |-> process_file_amplicon(jobs[j], timeout)]

(* ----------------------------- run_tests ------------------------------ *)
MName(level) == <<"m0", "m1", "m2", "m3", "m4">>[level + 1]

\* the loop over the lines of one result file: [pa, fa] are passed_amp and
\* failed_amp; lines with fewer than 7 columns are skipped
CountAmplicons(lines, len) ==
  LET tally[i \in 0 .. Len(lines)] ==
        IF i = 0 THEN [pa |-> 0, fa |-> 0]
        ELSE IF lines[i].ncols < MinColumns THEN tally[i - 1]
        ELSE IF lines[i].amp = len THEN [tally[i - 1] EXCEPT !.pa = @ + 1]
        ELSE [tally[i - 1] EXCEPT !.fa = @ + 1]
  IN  tally[Len(lines)]

\* the counters passed, failed, passed_n, failed_n after one file
CountersAfter(c, lines, len, cnt, flavour) ==
  LET amp == CountAmplicons(lines, len)
  IN  IF Len(lines) = cnt
      THEN [passed   |-> c.passed + (IF amp.pa = cnt THEN 1 ELSE 0),
            failed_n |-> c.failed_n + (IF amp.pa = cnt THEN 1 ELSE 0),
            failed   |-> c.failed + (IF amp.fa > 0 THEN 1 ELSE 0),
            passed_n |-> c.passed_n + (IF amp.fa > 0 THEN 1 ELSE 0)]
      ELSE [passed   |-> c.passed,
            failed   |-> c.failed + (IF flavour = "target" THEN 1 ELSE 0),
            passed_n |-> c.passed_n + (IF flavour = "neighbour" THEN 1 ELSE 0)
                           - (IF flavour = "neighbour" /\ amp.pa > 0 THEN 1 ELSE 0),
            failed_n |-> c.failed_n
                           + (IF flavour = "neighbour" /\ amp.pa > 0 THEN 1 ELSE 0)]

\* "Did the test pass?" of one file; passed is the counter after the file
NoteOf(flavour, cnt, passed, pa) ==
  IF flavour = "target"
  THEN (IF cnt = pa THEN "passed" ELSE "failed")
  ELSE (IF passed = 0 /\ pa = 0 THEN "passed" ELSE "failed")

\* results_dict[doc.name]
EntryOf(level, flavour, cnt, passed, amp) ==
  [m_no  |-> MName(level),
   note  |-> NoteOf(flavour, cnt, passed, amp.pa),
   count |-> cnt,
   pa    |-> amp.pa,
   fa    |-> IF flavour = "target" THEN amp.fa ELSE NA_NUM]

\* results_dict["NA"]
NAEntry == [m_no |-> "NA", note |-> "NA", count |-> NA_NUM, pa |-> NA_NUM, fa |-> NA_NUM]

ZeroCounters == [passed |-> 0, failed |-> 0, passed_n |-> 0, failed_n |-> 0]

(* --------------- interpret_and_reformat_sensi_speci_tests -------------- *)
\* ", ".join(fail_m)
Join(fail_m) ==
  LET joined[i \in 0 .. Len(fail_m)] ==
        IF i = 0 THEN ""
        ELSE IF i = 1 THEN fail_m[1]
        ELSE joined[i - 1] \o ", " \o fail_m[i]
  IN  joined[Len(fail_m)]

\* InterpretEntry without the elif for "m3": a failing m3 fails the verdict
InterpretEntry_NoTolerance(v, result, flavour) ==
  IF result.note = "passed" \/ (flavour # "target" /\ result.note = "NA")
  THEN [v EXCEPT !.ass_no = result.count,
                 !.fail_m = IF flavour = "target" THEN @ ELSE Append(@, result.m_no)]
  ELSE [passed |-> "FAILED", ass_no |-> result.count,
        fail_m |-> Append(v.fail_m, result.m_no)]

\* one iteration of the loop over the keys of test_res that map to a dict
InterpretEntry(v, result, flavour) ==
  IF flavour = "target"
  THEN IF result.note = "passed"
       THEN [v EXCEPT !.ass_no = result.count]
       ELSE IF result.m_no = "m3"
       THEN [v EXCEPT !.fail_m = Append(@, result.m_no), !.ass_no = result.count]
       ELSE [passed |-> "FAILED", ass_no |-> result.count,
             fail_m |-> Append(v.fail_m, result.m_no)]
  ELSE IF result.note = "passed" \/ result.note = "NA"
       THEN [v EXCEPT !.ass_no = result.count, !.fail_m = Append(@, result.m_no)]
       ELSE [passed |-> "FAILED", ass_no |-> result.count,
             fail_m |-> Append(v.fail_m, result.m_no)]

\* passed, ass_no and fail_m are locals, set at the top of every call
InterpretLocals == [passed |-> "PASSED", ass_no |-> 0, fail_m |-> <<>>]

InterpretLoop(v, test_res, flavour) ==
  LET after[i \in 0 .. Len(test_res)] ==
        IF i = 0 THEN v ELSE InterpretEntry(after[i - 1], test_res[i], flavour)
  IN  after[Len(test_res)]

\* the returned tuple (passed, ass_no, fail_m)
interpret_and_reformat_sensi_speci_tests(test_res, flavour) ==
  LET v == InterpretLoop(InterpretLocals, test_res, flavour)
  IN  [passed |-> v.passed, ass_no |-> v.ass_no, fail_m |-> Join(v.fail_m)]

NoVerdict == [passed |-> "", ass_no |-> 0, fail_m |-> ""]

(* ------------------ what one level's jobs leave behind ----------------- *)
\* vectors of k jobs, one per assembly file, that print at most b lines
\* together, for every b up to MaxLines
RECURSIVE JobVectors(_, _)
JobVectors(role, k) ==
  IF k = 0 THEN [b \in 0 .. MaxLines |-> {<<>>}]
  ELSE LET fewer == JobVectors(role, k - 1) @@ <<>>
           byLen == [l \in 0 .. MaxLines |-> {x \in JobsOf(role) : Len(x.stdout) = l}] @@ <<>>
       IN  [b \in 0 .. MaxLines |->
              UNION {{Append(v, j) : v \in fewer[b - l], j \in byLen[l]} : l \in 0 .. b}]

LevelJobs(role, n) == JobVectors(role, n)[MaxLines]

\* number of well-formed records of the expected length in one stdout
CorrectHits(stdout, len) == CountAmplicons(stdout, len).pa

\* number of well-formed records of the expected length that jobs ending
\* with exit code 0 printed
SuccessHits(jobs, len) ==
  LET sum[i \in 0 .. Len(jobs)] ==
        IF i = 0 THEN 0
        ELSE sum[i - 1] + (IF jobs[i].exit = "zero"
                           THEN CorrectHits(jobs[i].stdout, len) ELSE 0)
  IN  sum[Len(jobs)]

\* main of Primer_testing_parallelize for one level: the result file of the
\* level (absent when the dispatcher returned an empty list), with what the
\* jobs behind it did
LevelOutcome(jobs, role, len) ==
  LET successful == Successful(PoolMap(jobs, TimeoutOf(role)))
  IN  [absent   |-> (successful = <<>>),
       lines    |-> FileLines(successful),
       everyOne |-> \A i \in 1 .. Len(jobs) : CorrectHits(jobs[i].stdout, len) = 1,
       nonSucc  |-> \E i \in 1 .. Len(jobs) : jobs[i].exit # "zero",
       succHits |-> SuccessHits(jobs, len),
       zero     |-> \A i \in 1 .. Len(jobs) : jobs[i].stdout = <<>>]

\* every result a level of n assemblies can leave, per role and expected
\* length (tabulated once: @@ builds the function explicitly)
LevelOutcomes ==
  LET vectors == [role \in Roles, n \in 1 .. MaxCount |-> LevelJobs(role, n)] @@ <<>>
  IN  [role \in Roles, n \in 1 .. MaxCount, len \in AmpLens |->
         {LevelOutcome(v, role, len) : v \in vectors[role, n]}] @@ <<>>

NoProbe == [everyOne |-> FALSE, nonSucc |-> FALSE, succHits |-> 0]

\* the stdouts a job of the sweep model prints: nothing, or one record
SweepStdouts == {<<>>, <<[ncols |-> MinColumns, amp |-> 7]>>}
SweepJobs(role) == JobsOver(role, SweepStdouts)

\* the result dicts interpret_and_reformat_sensi_speci_tests can be handed:
\* one entry per level in any order of the keys, or the "NA" dict, or a dict
\* without any nested dict
DictEntry(role, cnt, lvl, note) ==
  [m_no  |-> MName(lvl),
   note  |-> note,
   count |-> cnt,
   pa    |-> IF (role = "target") = (note = "passed") THEN cnt ELSE 0,
   fa    |-> IF role = "target" THEN 0 ELSE NA_NUM]

ResultDicts(role, cnt) ==
  {<<>>, <<NAEntry>>} \cup
  UNION {{[i \in 1 .. k |-> DictEntry(role, cnt, order[i], notes[i])] :
            order \in {o \in [1 .. k -> Levels(role)] :
                         \A i, j \in 1 .. k : o[i] = o[j] => i = j},
            notes \in [1 .. k -> {"passed", "failed"}]} :
         k \in 1 .. Cardinality(Levels(role))}

(* ------------------------------- state -------------------------------- *)
VARIABLES
  vpc,          \* where Summarize_results is: start, run_tests, interpret, done, error
  mode,         \* "run": generate_results; "call": run_tests called directly
  exc,          \* the exception that ended Summarize_results, "" when none
  target_type,  \* argument of run_tests / flavour of interpret
  count,        \* count_files(FUR.target) or count_files(FUR.neighbour)
  length,       \* ampli_len
  files,        \* mismatch levels whose result file folder.glob found
  todo,         \* files the loop of run_tests has not reached yet
  counters,     \* passed, failed, passed_n, failed_n
  entries,      \* results_dict: the per-file entries, in insertion order
  summary,      \* results_dict: the three summary keys
  verdict,      \* the tuple interpret_and_reformat_sensi_speci_tests returns
  probe,        \* what the jobs behind the file read last did
  allZero,      \* every job behind every file read so far printed nothing
  first_line,   \* what get_amplicon_length_from_seq read from the m0 target
                \* file, <<>> before
  verdict_1     \* the tuple of an earlier interpret call on the same dict

VARIABLES
  spc,          \* where main of Primer_testing_parallelize is: idle, dispatch,
                \* returned, swept, aborted
  srole,        \* the loop main is in: "target" (range(4)) or "neighbour" (range(5))
  mismatch,     \* the loop variable i
  nfiles,       \* number of assembly files in FUR.target and FUR.neighbour
  sjobs,        \* what the jobs of the last dispatch did
  pool_results, \* results of pool.map
  out_seqk,     \* out_seqk_target / out_seqk_neighbour: the returned list
  written,      \* the result files written so far for the primer file in
                \* hand, as <<role, level>>
  sexc,         \* the exception that ended main, "" when none
  pair,         \* position of the primer file in hand in all_files, from 1
  npairs,       \* number of primer files in FUR.P3.PRIMERS
  admitted      \* how the last wait_for_memory ended: "", "yes", "timeout"

\* apc: where wait_for_memory is: idle, poll, sleep, returned, timeout
\* required: min_available, in units of memory
\* interval: CHECK_INTERVAL, in seconds
\* available: psutil.virtual_memory().available at the last poll
\* elapsed: time.time() - start_time, in seconds
\* polls: number of polls so far
\* sleeps: number of time.sleep(CHECK_INTERVAL) so far
VARIABLES
  apc,
  required,
  interval,
  available,
  elapsed,
  polls,
  sleeps

avars == <<apc, required, interval, available, elapsed, polls, sleeps>>

\* wpc: where monitor_memory is: idle, lookup, test, read, kill, sleep, returned
\* proc_state: the monitored process: running, exited (by itself), absent (no such pid), killed (by proc.kill())
\* threshold: the memory ceiling of the process, in units of memory
\* last_rss: proc.memory_info().rss at the last poll
\* kill_called: proc.kill() was called
VARIABLES
  wpc,
  proc_state,
  threshold,
  last_rss,
  kill_called

wvars == <<wpc, proc_state, threshold, last_rss, kill_called>>

\* ppc: where the dispatcher is: idle, enter, admit, map, returned, raised
\* pentry: which run_seqkit_amplicon_with_optional_timeout: pooled (Primer_testing_parallelize) or single (Primer_Testing_module_optimized)
\* pmism: the mismatch argument
\* pargs_ok: frwd, rev and concat are all non-empty
\* ptimeout: the timeout argument
\* nworkers: number of worker processes of the Pool (1 for the single-process module)
\* njobs: number of jobs: files of the folder, or calls of the single-process function
\* slot: per worker, the job it is running, 0 when it is free
\* jstate: per job: queued, taken, spawned, done
\* subproc: per job, its seqkit subprocess: none, live, dying (kill sent), dead
\* helper: per job, its cat subprocess: none, live, dying, dead
\* presult: per job, what the worker returned: pending, output, none, raised
\* cause: per job, how its seqkit run ended: exit0, exit1, watchdog, deadline
\* padmit: number of wait_for_memory calls
\* pexc: the exception that left the dispatcher
VARIABLES
  ppc,
  pentry,
  pmism,
  pargs_ok,
  ptimeout,
  nworkers,
  njobs,
  slot,
  jstate,
  subproc,
  helper,
  presult,
  cause,
  padmit,
  pexc

pvars == <<ppc, pentry, pmism, pargs_ok, ptimeout, nworkers, njobs, slot, jstate, subproc, helper, presult, cause, padmit, pexc>>

\* job_pc: where the worker of the watched job is: idle (not followed), communicate, returned
\* pid_of: who holds the pid handed to monitor_memory: seqkit (running or not yet reaped), free (reaped), other (an unrelated process the pid was given to)
\* bound: the process the psutil.Process object stands for: "" before the lookup, seqkit, other
\* other_killed: proc.kill() ended an unrelated process
VARIABLES
  job_pc,
  pid_of,
  bound,
  other_killed

jvars == <<job_pc, pid_of, bound, other_killed>>

vvars == <<vpc, mode, exc, target_type, count, length, files, todo, counters,
           entries, summary, verdict, probe, allZero, first_line, verdict_1>>

svars == <<spc, srole, mismatch, nfiles, sjobs, pool_results, out_seqk, written, sexc, pair, npairs, admitted>>

xvars == <<avars, wvars, pvars, jvars>>

vars == <<vvars, svars, xvars>>

NoSummary == [no_files |-> NA_NUM, n_passed |-> NA_NUM, n_failed |-> NA_NUM]

\* Summarize_results before generate_results; Primer_testing_parallelize is
\* not running
VInit ==
  /\ vpc = "start"
  /\ mode = ""
  /\ exc = ""
  /\ target_type = ""
  /\ count = 0
  /\ length = 0
  /\ files = {}
  /\ todo = {}
  /\ counters = ZeroCounters
  /\ entries = <<>>
  /\ summary = NoSummary
  /\ verdict = NoVerdict
  /\ probe = NoProbe
  /\ allZero = TRUE
  /\ first_line = <<>>
  /\ verdict_1 = NoVerdict
  /\ spc = "idle"
  /\ srole = "target"
  /\ mismatch = 0
  /\ nfiles = [role \in Roles |-> 0]
  /\ sjobs = <<>>
  /\ pool_results = <<>>
  /\ out_seqk = <<>>
  /\ written = {}
  /\ sexc = ""
  /\ pair = 0
  /\ npairs = 0
  /\ admitted = ""
  /\ apc = "idle"
  /\ required = 0
  /\ interval = 0
  /\ available = 0
  /\ elapsed = 0
  /\ polls = 0
  /\ sleeps = 0
  /\ wpc = "idle"
  /\ proc_state = "running"
  /\ threshold = 0
  /\ last_rss = 0
  /\ kill_called = FALSE
  /\ ppc = "idle"
  /\ pentry = "pooled"
  /\ pmism = 0
  /\ pargs_ok = TRUE
  /\ ptimeout = NoTimeout
  /\ nworkers = 0
  /\ njobs = 0
  /\ slot = <<>>
  /\ jstate = <<>>
  /\ subproc = <<>>
  /\ helper = <<>>
  /\ presult = <<>>
  /\ cause = <<>>
  /\ padmit = 0
  /\ pexc = ""
  /\ job_pc = "idle"
  /\ pid_of = "seqkit"
  /\ bound = ""
  /\ other_killed = FALSE

(* ------------------------- Summarize_results --------------------------- *)
\* the result files of one role a finished sweep over cnt assemblies can
\* leave: none when the folder holds no file (the dispatcher raises
\* FileNotFoundError before any job)
FileSets(role, cnt) ==
  IF cnt = 0 THEN {{}}
  ELSE {fs \in SUBSET Levels(role) : Cardinality(fs) <= MaxFiles}

\* get_amplicon_length_from_seq on the first line of the m0 target file
FirstLines == [kind : {"absent", "empty", "line"}, line : Records]

\* generate_results up to one of its two run_tests calls
generate_results(role, cnt, first, fs) ==
  /\ vpc = "start"
  /\ mode' = "run"
  /\ target_type' = role
  /\ count' = cnt
  /\ role = "target" => (first.kind = "absent" <=> 0 \notin fs)
  /\ IF first.kind = "absent"
     THEN /\ vpc' = "error" /\ exc' = "FileNotFoundError"
          /\ files' = fs
          /\ UNCHANGED <<length, todo>>
     ELSE IF first.kind = "empty" \/ first.line.ncols < MinColumns
     THEN /\ vpc' = "error" /\ exc' = "IndexError"
          /\ files' = fs
          /\ UNCHANGED <<length, todo>>
     ELSE /\ vpc' = "run_tests" /\ exc' = ""
          /\ length' = first.line.amp
          /\ files' = fs /\ todo' = fs
  /\ UNCHANGED <<counters, entries, summary, verdict, probe, allZero>>
  /\ first_line' = first
  /\ UNCHANGED verdict_1
  /\ UNCHANGED <<svars, xvars>>

\* run_tests called on its own, as the unit tests do
call_run_tests(role, cnt, len, fs) ==
  /\ vpc = "start"
  /\ mode' = "call"
  /\ target_type' = role
  /\ count' = cnt
  /\ length' = len
  /\ files' = fs /\ todo' = fs
  /\ vpc' = "run_tests"
  /\ UNCHANGED <<exc, counters, entries, summary, verdict, probe, allZero>>
  /\ UNCHANGED <<first_line, verdict_1>>
  /\ UNCHANGED <<svars, xvars>>

\* run_tests: if not files
run_tests_no_files ==
  /\ vpc = "run_tests" /\ files = {}
  /\ entries' = <<NAEntry>>
  /\ summary' = NoSummary
  /\ vpc' = "interpret"
  /\ UNCHANGED <<mode, exc, target_type, count, length, files, todo, counters,
                 verdict, probe, allZero>>
  /\ UNCHANGED <<first_line, verdict_1>>
  /\ UNCHANGED <<svars, xvars>>

\* run_tests: one iteration of for doc in files
run_tests_doc(level, lo) ==
  /\ vpc = "run_tests" /\ level \in todo
  /\ ~lo.absent
  /\ (mode = "run" /\ target_type = "target" /\ level = 0) =>
        /\ lo.lines # <<>>
        /\ lo.lines[1].ncols >= MinColumns
        /\ lo.lines[1].amp = length
  /\ LET c == CountersAfter(counters, lo.lines, length, count, target_type)
         amp == CountAmplicons(lo.lines, length)
     IN  /\ counters' = c
         /\ entries' = Append(entries, EntryOf(level, target_type, count, c.passed, amp))
  /\ todo' = todo \ {level}
  /\ probe' = [everyOne |-> lo.everyOne, nonSucc |-> lo.nonSucc, succHits |-> lo.succHits]
  /\ allZero' = (allZero /\ lo.zero)
  /\ UNCHANGED <<vpc, mode, exc, target_type, count, length, files, summary, verdict>>
  /\ UNCHANGED <<first_line, verdict_1>>
  /\ UNCHANGED <<svars, xvars>>

\* run_tests: the summary keys and the return
run_tests_return ==
  /\ vpc = "run_tests" /\ files # {} /\ todo = {}
  /\ summary' = [no_files |-> Cardinality(files),
                 n_passed |-> IF target_type = "target" THEN counters.passed
                              ELSE counters.passed_n,
                 n_failed |-> IF target_type = "target" THEN counters.failed
                              ELSE counters.failed_n]
  /\ vpc' = "interpret"
  /\ UNCHANGED <<mode, exc, target_type, count, length, files, todo, counters,
                 entries, verdict, probe, allZero>>
  /\ UNCHANGED <<first_line, verdict_1>>
  /\ UNCHANGED <<svars, xvars>>

\* interpret_and_reformat_sensi_speci_tests(results_dict, flavour); a dict
\* without a nested dict raises TypeError
interpret ==
  /\ vpc = "interpret"
  /\ IF entries = <<>>
     THEN /\ vpc' = "error" /\ exc' = "TypeError"
          /\ UNCHANGED verdict
     ELSE /\ verdict' = interpret_and_reformat_sensi_speci_tests(entries, target_type)
          /\ vpc' = "done"
          /\ UNCHANGED exc
  /\ UNCHANGED <<mode, target_type, count, length, files, todo, counters,
                 entries, summary, probe, allZero>>
  /\ UNCHANGED <<first_line, verdict_1>>
  /\ UNCHANGED <<svars, xvars>>

\* a second call that starts from what the call before left in passed,
\* ass_no and fail_m instead of setting them anew
interpret_again_KeepsLocals ==
  /\ vpc = "done"
  /\ verdict_1 = NoVerdict
  /\ verdict_1' = verdict
  /\ verdict' =
       LET v == InterpretLoop([passed |-> verdict.passed, ass_no |-> verdict.ass_no,
                               fail_m |-> IF verdict.fail_m = "" THEN <<>>
                                          ELSE <<verdict.fail_m>>],
                              entries, target_type)
       IN  [passed |-> v.passed, ass_no |-> v.ass_no, fail_m |-> Join(v.fail_m)]
  /\ UNCHANGED <<vpc, mode, exc, target_type, count, length, files, todo,
                 counters, entries, summary, probe, allZero, first_line>>
  /\ UNCHANGED <<svars, xvars>>

\* interpret_and_reformat_sensi_speci_tests called once more on the dict of
\* the call before
interpret_again ==
  /\ vpc = "done"
  /\ verdict_1 = NoVerdict
  /\ verdict_1' = verdict
  /\ verdict' = interpret_and_reformat_sensi_speci_tests(entries, target_type)
  /\ UNCHANGED <<vpc, mode, exc, target_type, count, length, files, todo,
                 counters, entries, summary, probe, allZero, first_line>>
  /\ UNCHANGED <<svars, xvars>>

VNext ==
  \/ /\ vpc = "start"
     /\ \E role \in Roles, cnt \in 0 .. MaxCount, first \in FirstLines :
          \E fs \in FileSets(role, cnt) : generate_results(role, cnt, first, fs)
  \/ /\ vpc = "start"
     /\ \E role \in Roles, cnt \in 0 .. MaxCount, len \in AmpLens :
          \E fs \in FileSets(role, cnt) : call_run_tests(role, cnt, len, fs)
  \/ run_tests_no_files
  \/ \E level \in (IF vpc = "run_tests" THEN todo ELSE {}) :
       \E lo \in LevelOutcomes[target_type, count, length] : run_tests_doc(level, lo)
  \/ run_tests_return
  \/ interpret

\* generate_results, or run_tests and interpret on their own, over every
\* set of result files a sweep can leave
SpecVerdict == VInit /\ [][VNext]_vars

\* interpret_and_reformat_sensi_speci_tests handed a result dict
InterpInit ==
  /\ vpc = "interpret"
  /\ mode = "call"
  /\ exc = ""
  /\ target_type \in Roles
  /\ count \in 1 .. MaxCount
  /\ length = 0
  /\ files = {}
  /\ todo = {}
  /\ counters = ZeroCounters
  /\ entries \in ResultDicts(target_type, count)
  /\ summary = NoSummary
  /\ verdict = NoVerdict
  /\ probe = NoProbe
  /\ allZero = TRUE
  /\ first_line = <<>>
  /\ verdict_1 = NoVerdict
  /\ spc = "idle"
  /\ srole = "target"
  /\ mismatch = 0
  /\ nfiles = [role \in Roles |-> 0]
  /\ sjobs = <<>>
  /\ pool_results = <<>>
  /\ out_seqk = <<>>
  /\ written = {}
  /\ sexc = ""
  /\ pair = 0
  /\ npairs = 0
  /\ admitted = ""
  /\ apc = "idle"
  /\ required = 0
  /\ interval = 0
  /\ available = 0
  /\ elapsed = 0
  /\ polls = 0
  /\ sleeps = 0
  /\ wpc = "idle"
  /\ proc_state = "running"
  /\ threshold = 0
  /\ last_rss = 0
  /\ kill_called = FALSE
  /\ ppc = "idle"
  /\ pentry = "pooled"
  /\ pmism = 0
  /\ pargs_ok = TRUE
  /\ ptimeout = NoTimeout
  /\ nworkers = 0
  /\ njobs = 0
  /\ slot = <<>>
  /\ jstate = <<>>
  /\ subproc = <<>>
  /\ helper = <<>>
  /\ presult = <<>>
  /\ cause = <<>>
  /\ padmit = 0
  /\ pexc = ""
  /\ job_pc = "idle"
  /\ pid_of = "seqkit"
  /\ bound = ""
  /\ other_killed = FALSE

SpecInterp == InterpInit /\ [][interpret]_vars

InterpTwiceNext == interpret \/ interpret_again

\* the same, with a second call on the same dict
SpecInterpTwice == InterpInit /\ [][InterpTwiceNext]_vars

(* --------------------- Primer_testing_parallelize ---------------------- *)
\* main before the first target level; Summarize_results is not running
SInit ==
  /\ spc = "dispatch"
  /\ srole = "target"
  /\ mismatch = 0
  /\ nfiles \in [Roles -> 0 .. MaxCount]
  /\ sjobs = <<>>
  /\ pool_results = <<>>
  /\ out_seqk = <<>>
  /\ written = {}
  /\ sexc = ""
  /\ pair = 1
  /\ npairs = 1
  /\ admitted = ""
  /\ vpc = "idle"
  /\ mode = ""
  /\ exc = ""
  /\ target_type = ""
  /\ count = 0
  /\ length = 0
  /\ files = {}
  /\ todo = {}
  /\ counters = ZeroCounters
  /\ entries = <<>>
  /\ summary = NoSummary
  /\ verdict = NoVerdict
  /\ probe = NoProbe
  /\ allZero = TRUE
  /\ first_line = <<>>
  /\ verdict_1 = NoVerdict
  /\ apc = "idle"
  /\ required = 0
  /\ interval = 0
  /\ available = 0
  /\ elapsed = 0
  /\ polls = 0
  /\ sleeps = 0
  /\ wpc = "idle"
  /\ proc_state = "running"
  /\ threshold = 0
  /\ last_rss = 0
  /\ kill_called = FALSE
  /\ ppc = "idle"
  /\ pentry = "pooled"
  /\ pmism = 0
  /\ pargs_ok = TRUE
  /\ ptimeout = NoTimeout
  /\ nworkers = 0
  /\ njobs = 0
  /\ slot = <<>>
  /\ jstate = <<>>
  /\ subproc = <<>>
  /\ helper = <<>>
  /\ presult = <<>>
  /\ cause = <<>>
  /\ padmit = 0
  /\ pexc = ""
  /\ job_pc = "idle"
  /\ pid_of = "seqkit"
  /\ bound = ""
  /\ other_killed = FALSE

\* what main raises for an exception of the dispatcher
MainRaises(role) == IF role = "target" THEN "OSError" ELSE "Exception"

\* the dispatcher when wait_for_memory raises TimeoutError: the error is
\* logged and sys.exit(1) raises SystemExit, which no except clause of main
\* catches
OnMemoryTimeout_Swallowed == [spc |-> "returned", sexc |-> ""]

OnMemoryTimeout == [spc |-> "aborted", sexc |-> "SystemExit"]

\* the exit status of the interpreter: sys.exit(1), or 1 for an exception
\* nothing caught
ExitStatus == IF sexc = "" THEN 0 ELSE 1

\* run_seqkit_amplicon_with_optional_timeout as main calls it for level
\* mismatch: v is what the jobs do, memory_free whether wait_for_memory
\* returns before its own deadline
run_seqkit_amplicon_with_optional_timeout(v, memory_free) ==
  /\ spc = "dispatch"
  /\ IF nfiles[srole] = 0
     THEN /\ spc' = "aborted" /\ sexc' = MainRaises(srole)
          /\ UNCHANGED <<sjobs, pool_results, out_seqk, admitted>>
     ELSE IF ~memory_free
     THEN /\ spc' = OnMemoryTimeout.spc /\ sexc' = OnMemoryTimeout.sexc
          /\ admitted' = "timeout"
          /\ UNCHANGED <<sjobs, pool_results, out_seqk>>
     ELSE LET results == PoolMap(v, TimeoutOf(srole))
          IN  /\ sjobs' = v
              /\ admitted' = "yes"
              /\ IF \E i \in 1 .. Len(results) : results[i].raised
                 THEN /\ spc' = "aborted" /\ sexc' = MainRaises(srole)
                      /\ UNCHANGED <<pool_results, out_seqk>>
                 ELSE /\ spc' = "returned"
                      /\ pool_results' = results
                      /\ out_seqk' = Successful(results)
                      /\ UNCHANGED sexc
  /\ UNCHANGED <<srole, mismatch, nfiles, written, pair, npairs>>
  /\ UNCHANGED <<vvars, xvars>>

\* main after the dispatcher returned: skip the level or write its result
\* file, then go on to the next level, to the neighbour loop after the last
\* target level, to the next primer file after the last neighbour level
main_write ==
  /\ spc = "returned"
  /\ LET files_now == IF out_seqk = <<>> THEN written
                      ELSE written \cup {<<srole, mismatch>>}
     IN  IF mismatch + 1 \in Levels(srole)
         THEN /\ mismatch' = mismatch + 1
              /\ spc' = "dispatch"
              /\ written' = files_now
              /\ UNCHANGED <<srole, pair>>
         ELSE IF srole = "target"
         THEN /\ srole' = "neighbour"
              /\ mismatch' = 0
              /\ spc' = "dispatch"
              /\ written' = files_now
              /\ UNCHANGED pair
         ELSE IF pair < npairs
         THEN /\ pair' = pair + 1
              /\ srole' = "target"
              /\ mismatch' = 0
              /\ spc' = "dispatch"
              /\ written' = {}
         ELSE /\ spc' = "swept"
              /\ written' = files_now
              /\ UNCHANGED <<srole, mismatch, pair>>
  /\ sjobs' = <<>>
  /\ pool_results' = <<>>
  /\ out_seqk' = <<>>
  /\ UNCHANGED <<nfiles, sexc, npairs, admitted>>
  /\ UNCHANGED <<vvars, xvars>>

SNext ==
  \/ /\ spc = "dispatch"
     /\ \E v \in [1 .. nfiles[srole] -> SweepJobs(srole)], memory_free \in BOOLEAN :
          run_seqkit_amplicon_with_optional_timeout(v, memory_free)
  \/ main_write

\* main of Primer_testing_parallelize for one primer file: the target sweep,
\* then the neighbour sweep
SpecSweep == SInit /\ [][SNext]_vars
(* --------------------------- wait_for_memory --------------------------- *)
\* timeout=21600 (6 h)
MemoryTimeout == 21600
\* values of CHECK_INTERVAL, in seconds
CheckIntervals == {5400, 10800, 21600, 30000}
\* psutil.virtual_memory().available and min_available, in units of memory
MemoryReadings == 0 .. 2
MemoryNeeds == 1 .. 2
\* how much longer than CHECK_INTERVAL a time.sleep(CHECK_INTERVAL) can take
SleepOverrun == {0, 1}

\* PollOutcome with the two tests swapped: the deadline is tested before
\* the memory
PollOutcome_DeadlineFirst(avail, need, waited) ==
  IF waited > MemoryTimeout THEN "timeout"
  ELSE IF avail >= need THEN "returned"
  ELSE "sleep"

\* one pass of the while True loop after the poll: return, raise
\* TimeoutError, or go to sleep
PollOutcome(avail, need, waited) ==
  IF avail >= need THEN "returned"
  ELSE IF waited > MemoryTimeout THEN "timeout"
  ELSE "sleep"

\* wait_for_memory(min_available, logger, CHECK_INTERVAL) is called
AInit ==
  /\ apc = "poll"
  /\ required \in MemoryNeeds
  /\ interval \in CheckIntervals
  /\ available = 0
  /\ elapsed = 0
  /\ polls = 0
  /\ sleeps = 0
  /\ vpc = "idle"
  /\ mode = ""
  /\ exc = ""
  /\ target_type = ""
  /\ count = 0
  /\ length = 0
  /\ files = {}
  /\ todo = {}
  /\ counters = ZeroCounters
  /\ entries = <<>>
  /\ summary = NoSummary
  /\ verdict = NoVerdict
  /\ probe = NoProbe
  /\ allZero = TRUE
  /\ first_line = <<>>
  /\ verdict_1 = NoVerdict
  /\ spc = "idle"
  /\ srole = "target"
  /\ mismatch = 0
  /\ nfiles = [role \in Roles |-> 0]
  /\ sjobs = <<>>
  /\ pool_results = <<>>
  /\ out_seqk = <<>>
  /\ written = {}
  /\ sexc = ""
  /\ pair = 0
  /\ npairs = 0
  /\ admitted = ""
  /\ wpc = "idle"
  /\ proc_state = "running"
  /\ threshold = 0
  /\ last_rss = 0
  /\ kill_called = FALSE
  /\ ppc = "idle"
  /\ pentry = "pooled"
  /\ pmism = 0
  /\ pargs_ok = TRUE
  /\ ptimeout = NoTimeout
  /\ nworkers = 0
  /\ njobs = 0
  /\ slot = <<>>
  /\ jstate = <<>>
  /\ subproc = <<>>
  /\ helper = <<>>
  /\ presult = <<>>
  /\ cause = <<>>
  /\ padmit = 0
  /\ pexc = ""
  /\ job_pc = "idle"
  /\ pid_of = "seqkit"
  /\ bound = ""
  /\ other_killed = FALSE

\* available = psutil.virtual_memory().available and the two tests on it
wait_for_memory_poll(reading) ==
  /\ apc = "poll"
  /\ available' = reading
  /\ polls' = polls + 1
  /\ apc' = PollOutcome(reading, required, elapsed)
  /\ UNCHANGED <<required, interval, elapsed, sleeps>>
  /\ UNCHANGED <<vvars, svars, wvars, pvars, jvars>>

\* time.sleep(CHECK_INTERVAL)
wait_for_memory_sleep(overrun) ==
  /\ apc = "sleep"
  /\ elapsed' = elapsed + interval + overrun
  /\ sleeps' = sleeps + 1
  /\ apc' = "poll"
  /\ UNCHANGED <<required, interval, available, polls>>
  /\ UNCHANGED <<vvars, svars, wvars, pvars, jvars>>

ANext ==
  \/ \E reading \in MemoryReadings : wait_for_memory_poll(reading)
  \/ \E overrun \in SleepOverrun : wait_for_memory_sleep(overrun)

\* one call of wait_for_memory
SpecAdmit == AInit /\ [][ANext]_vars

(* --------------------------- monitor_memory ---------------------------- *)
\* values of proc.memory_info().rss and of the ceiling, in units of memory
RssReadings == 0 .. 5
Thresholds == 1 .. 3

\* ExceedsThreshold with >= for >
ExceedsThreshold_OrEqual(mem, limit) == mem >= limit

\* if mem > threshold
ExceedsThreshold(mem, limit) == mem > limit

\* monitor_memory(pid, threshold, logger) is started as a thread; the
\* process may have exited already, and its pid may be gone
WInit ==
  /\ wpc = "lookup"
  /\ proc_state \in {"running", "exited", "absent"}
  /\ threshold \in Thresholds
  /\ last_rss = 0
  /\ kill_called = FALSE
  /\ vpc = "idle"
  /\ mode = ""
  /\ exc = ""
  /\ target_type = ""
  /\ count = 0
  /\ length = 0
  /\ files = {}
  /\ todo = {}
  /\ counters = ZeroCounters
  /\ entries = <<>>
  /\ summary = NoSummary
  /\ verdict = NoVerdict
  /\ probe = NoProbe
  /\ allZero = TRUE
  /\ first_line = <<>>
  /\ verdict_1 = NoVerdict
  /\ spc = "idle"
  /\ srole = "target"
  /\ mismatch = 0
  /\ nfiles = [role \in Roles |-> 0]
  /\ sjobs = <<>>
  /\ pool_results = <<>>
  /\ out_seqk = <<>>
  /\ written = {}
  /\ sexc = ""
  /\ pair = 0
  /\ npairs = 0
  /\ admitted = ""
  /\ apc = "idle"
  /\ required = 0
  /\ interval = 0
  /\ available = 0
  /\ elapsed = 0
  /\ polls = 0
  /\ sleeps = 0
  /\ ppc = "idle"
  /\ pentry = "pooled"
  /\ pmism = 0
  /\ pargs_ok = TRUE
  /\ ptimeout = NoTimeout
  /\ nworkers = 0
  /\ njobs = 0
  /\ slot = <<>>
  /\ jstate = <<>>
  /\ subproc = <<>>
  /\ helper = <<>>
  /\ presult = <<>>
  /\ cause = <<>>
  /\ padmit = 0
  /\ pexc = ""
  /\ job_pc = "idle"
  /\ pid_of = IF proc_state = "absent" THEN "free" ELSE "seqkit"
  /\ bound = ""
  /\ other_killed = FALSE

\* the process proc stands for, as psutil sees it: an unrelated process
\* that was given the pid before the lookup is running; is_running() and
\* kill() compare the creation time, so a pid given away after the lookup
\* is a process that is gone
Watched == IF bound = "other" THEN "running" ELSE proc_state

\* proc = psutil.Process(pid): whatever process holds the pid now;
\* NoSuchProcess is caught and the function ends
monitor_memory_lookup ==
  /\ wpc = "lookup"
  /\ IF pid_of = "other"
     THEN bound' = "other" /\ wpc' = "test"
     ELSE /\ bound' = "seqkit"
          /\ wpc' = IF pid_of = "seqkit" /\ proc_state = "running"
                    THEN "test" ELSE "returned"
  /\ UNCHANGED <<proc_state, threshold, last_rss, kill_called>>
  /\ UNCHANGED <<job_pc, pid_of, other_killed>>
  /\ UNCHANGED <<vvars, svars, avars, pvars>>

\* while proc.is_running()
monitor_memory_is_running ==
  /\ wpc = "test"
  /\ wpc' = IF Watched = "running" THEN "read" ELSE "returned"
  /\ UNCHANGED <<proc_state, threshold, last_rss, kill_called>>
  /\ UNCHANGED jvars
  /\ UNCHANGED <<vvars, svars, avars, pvars>>

\* mem = proc.memory_info().rss (NoSuchProcess when the process is gone) and
\* if mem > threshold
monitor_memory_read(rss) ==
  /\ wpc = "read"
  /\ IF Watched # "running"
     THEN /\ wpc' = "returned"
          /\ UNCHANGED last_rss
     ELSE /\ last_rss' = rss
          /\ wpc' = IF ExceedsThreshold(rss, threshold) THEN "kill" ELSE "sleep"
  /\ UNCHANGED <<proc_state, threshold, kill_called>>
  /\ UNCHANGED jvars
  /\ UNCHANGED <<vvars, svars, avars, pvars>>

\* proc.kill() (NoSuchProcess when the process is gone) and return
monitor_memory_kill ==
  /\ wpc = "kill"
  /\ kill_called' = TRUE
  /\ IF bound = "other"
     THEN other_killed' = TRUE /\ UNCHANGED proc_state
     ELSE /\ proc_state' = IF proc_state = "running" THEN "killed" ELSE proc_state
          /\ UNCHANGED other_killed
  /\ wpc' = "returned"
  /\ UNCHANGED <<threshold, last_rss>>
  /\ UNCHANGED <<job_pc, pid_of, bound>>
  /\ UNCHANGED <<vvars, svars, avars, pvars>>

\* time.sleep(1)
monitor_memory_sleep ==
  /\ wpc = "sleep"
  /\ wpc' = "test"
  /\ UNCHANGED <<proc_state, threshold, last_rss, kill_called>>
  /\ UNCHANGED jvars
  /\ UNCHANGED <<vvars, svars, avars, pvars>>

\* the monitored process ends by itself while the thread runs
process_exits ==
  /\ wpc \notin {"idle", "returned"}
  /\ proc_state = "running"
  /\ proc_state' = "exited"
  /\ UNCHANGED <<wpc, threshold, last_rss, kill_called>>
  /\ UNCHANGED jvars
  /\ UNCHANGED <<vvars, svars, avars, pvars>>

WNext ==
  \/ monitor_memory_lookup
  \/ monitor_memory_is_running
  \/ \E rss \in RssReadings : monitor_memory_read(rss)
  \/ monitor_memory_kill
  \/ monitor_memory_sleep
  \/ process_exits

\* one monitor_memory thread and the process it watches
SpecWatchdog == WInit /\ [][WNext]_vars

(* -------------- one job, its subprocess and its watchdog ---------------- *)
\* process_file_amplicon of a neighbour level after memory_thread.start():
\* seqkit runs, the worker is in communicate(timeout=30), the daemon thread
\* is about to run monitor_memory
JInit ==
  /\ wpc = "lookup"
  /\ proc_state = "running"
  /\ threshold \in Thresholds
  /\ last_rss = 0
  /\ kill_called = FALSE
  /\ job_pc = "communicate"
  /\ pid_of = "seqkit"
  /\ bound = ""
  /\ other_killed = FALSE
  /\ vpc = "idle"
  /\ mode = ""
  /\ exc = ""
  /\ target_type = ""
  /\ count = 0
  /\ length = 0
  /\ files = {}
  /\ todo = {}
  /\ counters = ZeroCounters
  /\ entries = <<>>
  /\ summary = NoSummary
  /\ verdict = NoVerdict
  /\ probe = NoProbe
  /\ allZero = TRUE
  /\ first_line = <<>>
  /\ verdict_1 = NoVerdict
  /\ spc = "idle"
  /\ srole = "target"
  /\ mismatch = 0
  /\ nfiles = [role \in Roles |-> 0]
  /\ sjobs = <<>>
  /\ pool_results = <<>>
  /\ out_seqk = <<>>
  /\ written = {}
  /\ sexc = ""
  /\ pair = 0
  /\ npairs = 0
  /\ admitted = ""
  /\ apc = "idle"
  /\ required = 0
  /\ interval = 0
  /\ available = 0
  /\ elapsed = 0
  /\ polls = 0
  /\ sleeps = 0
  /\ ppc = "idle"
  /\ pentry = "pooled"
  /\ pmism = 0
  /\ pargs_ok = TRUE
  /\ ptimeout = NoTimeout
  /\ nworkers = 0
  /\ njobs = 0
  /\ slot = <<>>
  /\ jstate = <<>>
  /\ subproc = <<>>
  /\ helper = <<>>
  /\ presult = <<>>
  /\ cause = <<>>
  /\ padmit = 0
  /\ pexc = ""

\* seqkit has ended (by itself or killed by the watchdog): communicate()
\* and wait() return, which reaps the process and frees its pid, and the
\* worker returns the output; the thread is neither joined nor told
job_communicate_returns ==
  /\ job_pc = "communicate"
  /\ proc_state \in {"exited", "killed"}
  /\ pid_of' = "free"
  /\ job_pc' = "returned"
  /\ UNCHANGED <<bound, other_killed>>
  /\ UNCHANGED wvars
  /\ UNCHANGED <<vvars, svars, avars, pvars>>

\* communicate(timeout) raises TimeoutExpired: seqkit_out.kill() and
\* return None; the process is not waited for, its pid stays taken
job_deadline ==
  /\ job_pc = "communicate"
  /\ proc_state = "running"
  /\ proc_state' = "killed"
  /\ job_pc' = "returned"
  /\ UNCHANGED <<wpc, threshold, last_rss, kill_called>>
  /\ UNCHANGED <<pid_of, bound, other_killed>>
  /\ UNCHANGED <<vvars, svars, avars, pvars>>

\* the operating system gives the freed pid to a process started by someone
\* else (another worker's seqkit, say)
pid_reused ==
  /\ pid_of = "free"
  /\ pid_of' = "other"
  /\ UNCHANGED <<job_pc, bound, other_killed>>
  /\ UNCHANGED wvars
  /\ UNCHANGED <<vvars, svars, avars, pvars>>

JNext ==
  \/ WNext
  \/ job_communicate_returns
  \/ job_deadline
  \/ pid_reused

\* one job of a neighbour level: the worker, seqkit, the watchdog thread
\* and the pid of seqkit
SpecJobWatch == JInit /\ [][JNext]_vars

(* ------------------ main over every primer file -------------------------- *)
\* the largest number of primer files explored
MaxPairs == 2

\* jobs of the whole run: seqkit ends with exit code 0 with no amplicon or
\* with one, or is still running at the deadline of a neighbour level
RunJobs(role) ==
  {j \in SweepJobs(role) : j.exit \in {"zero", "timeout"}}

RInit ==
  /\ spc = "dispatch"
  /\ srole = "target"
  /\ mismatch = 0
  /\ nfiles \in [Roles -> 1 .. MaxCount]
  /\ sjobs = <<>>
  /\ pool_results = <<>>
  /\ out_seqk = <<>>
  /\ written = {}
  /\ sexc = ""
  /\ pair = 1
  /\ npairs \in 1 .. MaxPairs
  /\ admitted = ""
  /\ vpc = "idle"
  /\ mode = ""
  /\ exc = ""
  /\ target_type = ""
  /\ count = 0
  /\ length = 0
  /\ files = {}
  /\ todo = {}
  /\ counters = ZeroCounters
  /\ entries = <<>>
  /\ summary = NoSummary
  /\ verdict = NoVerdict
  /\ probe = NoProbe
  /\ allZero = TRUE
  /\ first_line = <<>>
  /\ verdict_1 = NoVerdict
  /\ apc = "idle"
  /\ required = 0
  /\ interval = 0
  /\ available = 0
  /\ elapsed = 0
  /\ polls = 0
  /\ sleeps = 0
  /\ wpc = "idle"
  /\ proc_state = "running"
  /\ threshold = 0
  /\ last_rss = 0
  /\ kill_called = FALSE
  /\ ppc = "idle"
  /\ pentry = "pooled"
  /\ pmism = 0
  /\ pargs_ok = TRUE
  /\ ptimeout = NoTimeout
  /\ nworkers = 0
  /\ njobs = 0
  /\ slot = <<>>
  /\ jstate = <<>>
  /\ subproc = <<>>
  /\ helper = <<>>
  /\ presult = <<>>
  /\ cause = <<>>
  /\ padmit = 0
  /\ pexc = ""
  /\ job_pc = "idle"
  /\ pid_of = "seqkit"
  /\ bound = ""
  /\ other_killed = FALSE

RNext ==
  \/ /\ spc = "dispatch"
     /\ \E v \in [1 .. nfiles[srole] -> RunJobs(srole)], memory_free \in BOOLEAN :
          run_seqkit_amplicon_with_optional_timeout(v, memory_free)
  \/ main_write

\* main of Primer_testing_parallelize: for every primer file the target
\* sweep, then the neighbour sweep
SpecRun == RInit /\ [][RNext]_vars

(* ------------- one level's dispatch: the Pool and its jobs --------------- *)
(* One call of run_seqkit_amplicon_with_optional_timeout, followed job by    *)
(* job and process by process.  The pooled function                          *)
(* (Primer_testing_parallelize) lists the folder, calls wait_for_memory      *)
(* once and maps process_file_amplicon over the files with a Pool of         *)
(* max_workers processes.  The single-process function of                    *)
(* Primer_Testing_module_optimized validates its arguments, starts cat and   *)
(* seqkit and waits for seqkit; its caller calls it once per level, one      *)
(* call after the other, which is a Pool of one worker here.                 *)

\* the largest number of worker processes explored
MaxWorkers == 2

EntryPoints == {"pooled", "single"}

\* the mismatch argument: an invalid one and a valid one
MismatchArgs == {0 - 1, 0}

JobIds == 1 .. njobs

WorkerIds == 1 .. nworkers

\* Popen.kill(): SIGKILL is sent to a process that has not ended; it ends
\* some time after the call returns
AfterKill_NotSent(state) == state

AfterKill(state) == IF state = "live" THEN "dying" ELSE state

\* communicate() has a deadline when the timeout argument is not None
DeadlineArmed_Never(timeout) == FALSE

DeadlineArmed(timeout) == timeout # NoTimeout

\* the two argument checks at the top of the single-process function; the
\* pooled function has none
ArgumentsValid == pargs_ok /\ pmism >= 0

\* the subprocesses of job j that are started and have not ended
LiveProcesses ==
  {j \in JobIds : subproc[j] \in {"live", "dying"}}

PInit ==
  /\ ppc = "enter"
  /\ pentry \in EntryPoints
  /\ pmism \in MismatchArgs
  /\ pargs_ok \in BOOLEAN
  /\ ptimeout \in {NoTimeout, NeighbourTimeout}
  /\ nworkers \in 1 .. MaxWorkers
  /\ njobs \in 1 .. MaxCount
  /\ (pentry = "single" => nworkers = 1)
  /\ slot = [w \in 1 .. nworkers |-> 0]
  /\ jstate = [j \in 1 .. njobs |-> "queued"]
  /\ subproc = [j \in 1 .. njobs |-> "none"]
  /\ helper = [j \in 1 .. njobs |-> "none"]
  /\ presult = [j \in 1 .. njobs |-> "pending"]
  /\ cause = [j \in 1 .. njobs |-> ""]
  /\ padmit = 0
  /\ pexc = ""
  /\ vpc = "idle"
  /\ mode = ""
  /\ exc = ""
  /\ target_type = ""
  /\ count = 0
  /\ length = 0
  /\ files = {}
  /\ todo = {}
  /\ counters = ZeroCounters
  /\ entries = <<>>
  /\ summary = NoSummary
  /\ verdict = NoVerdict
  /\ probe = NoProbe
  /\ allZero = TRUE
  /\ first_line = <<>>
  /\ verdict_1 = NoVerdict
  /\ spc = "idle"
  /\ srole = "target"
  /\ mismatch = 0
  /\ nfiles = [role \in Roles |-> 0]
  /\ sjobs = <<>>
  /\ pool_results = <<>>
  /\ out_seqk = <<>>
  /\ written = {}
  /\ sexc = ""
  /\ pair = 0
  /\ npairs = 0
  /\ admitted = ""
  /\ apc = "idle"
  /\ required = 0
  /\ interval = 0
  /\ available = 0
  /\ elapsed = 0
  /\ polls = 0
  /\ sleeps = 0
  /\ wpc = "idle"
  /\ proc_state = "running"
  /\ threshold = 0
  /\ last_rss = 0
  /\ kill_called = FALSE
  /\ job_pc = "idle"
  /\ pid_of = "seqkit"
  /\ bound = ""
  /\ other_killed = FALSE

\* the top of the function.  single: the two argument checks, ValueError
\* when one fails.  pooled: the folder has files (njobs >= 1), no check of
\* the arguments, and on to wait_for_memory
dispatch_enter ==
  /\ ppc = "enter"
  /\ IF pentry = "single"
       THEN IF ArgumentsValid
              THEN ppc' = "map" /\ pexc' = pexc
              ELSE ppc' = "raised" /\ pexc' = "ValueError"
       ELSE ppc' = "admit" /\ pexc' = pexc
  /\ UNCHANGED <<pentry, pmism, pargs_ok, ptimeout, nworkers, njobs, slot,
                 jstate, subproc, helper, presult, cause, padmit>>
  /\ UNCHANGED <<vvars, svars, avars, wvars, jvars>>

\* pooled: the one wait_for_memory call of the level; a TimeoutError ends
\* the interpreter with sys.exit(1)
dispatch_admit(memory_free) ==
  /\ ppc = "admit"
  /\ padmit' = padmit + 1
  /\ IF memory_free
       THEN ppc' = "map" /\ pexc' = pexc
       ELSE ppc' = "raised" /\ pexc' = "SystemExit"
  /\ UNCHANGED <<pentry, pmism, pargs_ok, ptimeout, nworkers, njobs, slot,
                 jstate, subproc, helper, presult, cause>>
  /\ UNCHANGED <<vvars, svars, avars, wvars, jvars>>

\* a free worker takes the first job of the task queue
worker_take(w) ==
  /\ ppc = "map"
  /\ slot[w] = 0
  /\ \E j \in JobIds :
       /\ jstate[j] = "queued"
       /\ \A k \in JobIds : k < j => jstate[k] # "queued"
       /\ slot' = [slot EXCEPT ![w] = j]
       /\ jstate' = [jstate EXCEPT ![j] = "taken"]
  /\ UNCHANGED <<ppc, pentry, pmism, pargs_ok, ptimeout, nworkers, njobs,
                 subproc, helper, presult, cause, padmit, pexc>>
  /\ UNCHANGED <<vvars, svars, avars, wvars, jvars>>

\* Popen: seqkit is started (with the memory watchdog thread in the pooled
\* function, behind a cat process in the single-process one)
worker_spawn(w) ==
  /\ ppc = "map"
  /\ slot[w] # 0
  /\ jstate[slot[w]] = "taken"
  /\ jstate' = [jstate EXCEPT ![slot[w]] = "spawned"]
  /\ subproc' = [subproc EXCEPT ![slot[w]] = "live"]
  /\ helper' = [helper EXCEPT
                  ![slot[w]] = IF pentry = "single" THEN "live" ELSE "none"]
  /\ UNCHANGED <<ppc, pentry, pmism, pargs_ok, ptimeout, nworkers, njobs,
                 slot, presult, cause, padmit, pexc>>
  /\ UNCHANGED <<vvars, svars, avars, wvars, jvars>>

\* seqkit ends by itself with exit code 0 or another one; cat has ended
\* when its reader has
process_ends(j, exitcode) ==
  /\ j \in JobIds
  /\ subproc[j] = "live"
  /\ subproc' = [subproc EXCEPT ![j] = "dead"]
  /\ helper' = [helper EXCEPT ![j] = IF @ = "live" THEN "dead" ELSE @]
  /\ cause' = [cause EXCEPT ![j] = exitcode]
  /\ UNCHANGED <<ppc, pentry, pmism, pargs_ok, ptimeout, nworkers, njobs,
                 slot, jstate, presult, padmit, pexc>>
  /\ UNCHANGED <<vvars, svars, avars, wvars, jvars>>

\* the watchdog thread of a pooled job finds seqkit above its memory
\* ceiling and calls kill()
watchdog_kills(j) ==
  /\ j \in JobIds
  /\ pentry = "pooled"
  /\ jstate[j] = "spawned"
  /\ subproc[j] = "live"
  /\ subproc' = [subproc EXCEPT ![j] = AfterKill(@)]
  /\ cause' = [cause EXCEPT ![j] = "watchdog"]
  /\ UNCHANGED <<ppc, pentry, pmism, pargs_ok, ptimeout, nworkers, njobs,
                 slot, jstate, helper, presult, padmit, pexc>>
  /\ UNCHANGED <<vvars, svars, avars, wvars, jvars>>

\* a process that was sent SIGKILL ends
process_dies(j, which) ==
  /\ j \in JobIds
  /\ IF which = "seqkit"
       THEN /\ subproc[j] = "dying"
            /\ subproc' = [subproc EXCEPT ![j] = "dead"]
            /\ UNCHANGED helper
       ELSE /\ helper[j] = "dying"
            /\ helper' = [helper EXCEPT ![j] = "dead"]
            /\ UNCHANGED subproc
  /\ UNCHANGED <<ppc, pentry, pmism, pargs_ok, ptimeout, nworkers, njobs,
                 slot, jstate, presult, cause, padmit, pexc>>
  /\ UNCHANGED <<vvars, svars, avars, wvars, jvars>>

\* communicate() (and wait()) return once seqkit has ended.  pooled: the
\* output is returned whatever the exit code.  single: the output is
\* returned on exit code 0, CalledProcessError is raised otherwise
worker_collect(w) ==
  /\ ppc = "map"
  /\ slot[w] # 0
  /\ jstate[slot[w]] = "spawned"
  /\ subproc[slot[w]] = "dead"
  /\ jstate' = [jstate EXCEPT ![slot[w]] = "done"]
  /\ slot' = [slot EXCEPT ![w] = 0]
  /\ IF pentry = "single" /\ cause[slot[w]] # "exit0"
       THEN /\ ppc' = "raised"
            /\ pexc' = "CalledProcessError"
            /\ UNCHANGED presult
       ELSE /\ presult' = [presult EXCEPT ![slot[w]] = "output"]
            /\ UNCHANGED <<ppc, pexc>>
  /\ UNCHANGED <<pentry, pmism, pargs_ok, ptimeout, nworkers, njobs, subproc,
                 helper, cause, padmit>>
  /\ UNCHANGED <<vvars, svars, avars, wvars, jvars>>

\* communicate(timeout) raises TimeoutExpired while seqkit has not ended:
\* kill() on seqkit (and on cat in the single-process function), return
\* None; neither wait() nor communicate() follows the kill()
worker_deadline(w) ==
  /\ ppc = "map"
  /\ DeadlineArmed(ptimeout)
  /\ slot[w] # 0
  /\ jstate[slot[w]] = "spawned"
  /\ subproc[slot[w]] \in {"live", "dying"}
  /\ subproc' = [subproc EXCEPT ![slot[w]] = AfterKill(@)]
  /\ helper' = [helper EXCEPT ![slot[w]] = AfterKill(@)]
  /\ presult' = [presult EXCEPT ![slot[w]] = "none"]
  /\ cause' = [cause EXCEPT ![slot[w]] = "deadline"]
  /\ jstate' = [jstate EXCEPT ![slot[w]] = "done"]
  /\ slot' = [slot EXCEPT ![w] = 0]
  /\ UNCHANGED <<ppc, pentry, pmism, pargs_ok, ptimeout, nworkers, njobs,
                 padmit, pexc>>
  /\ UNCHANGED <<vvars, svars, avars, wvars, jvars>>

\* pooled: the assembly file cannot be read: OSError is raised before any
\* Popen, and pool.map raises it in the dispatcher once the jobs are through
worker_open_error(w) ==
  /\ ppc = "map"
  /\ pentry = "pooled"
  /\ slot[w] # 0
  /\ jstate[slot[w]] = "taken"
  /\ jstate' = [jstate EXCEPT ![slot[w]] = "done"]
  /\ presult' = [presult EXCEPT ![slot[w]] = "raised"]
  /\ slot' = [slot EXCEPT ![w] = 0]
  /\ UNCHANGED <<ppc, pentry, pmism, pargs_ok, ptimeout, nworkers, njobs,
                 subproc, helper, cause, padmit, pexc>>
  /\ UNCHANGED <<vvars, svars, avars, wvars, jvars>>

\* communicate() raises something other than TimeoutExpired (its output
\* cannot be decoded, say): the except Exception branch.  pooled: None is
\* returned.  single: Exception is raised.  Nothing is done to the processes
worker_unexpected(w) ==
  /\ ppc = "map"
  /\ slot[w] # 0
  /\ jstate[slot[w]] = "spawned"
  /\ jstate' = [jstate EXCEPT ![slot[w]] = "done"]
  /\ slot' = [slot EXCEPT ![w] = 0]
  /\ IF pentry = "single"
       THEN /\ ppc' = "raised"
            /\ pexc' = "Exception"
            /\ UNCHANGED presult
       ELSE /\ presult' = [presult EXCEPT ![slot[w]] = "none"]
            /\ UNCHANGED <<ppc, pexc>>
  /\ UNCHANGED <<pentry, pmism, pargs_ok, ptimeout, nworkers, njobs, subproc,
                 helper, cause, padmit>>
  /\ UNCHANGED <<vvars, svars, avars, wvars, jvars>>

\* pool.map returns when every job has returned, and raises the exception
\* of a job that raised
pool_return ==
  /\ ppc = "map"
  /\ \A j \in JobIds : jstate[j] = "done"
  /\ IF \E j \in JobIds : presult[j] = "raised"
       THEN ppc' = "raised" /\ pexc' = "OSError"
       ELSE ppc' = "returned" /\ pexc' = pexc
  /\ UNCHANGED <<pentry, pmism, pargs_ok, ptimeout, nworkers, njobs, slot,
                 jstate, subproc, helper, presult, cause, padmit>>
  /\ UNCHANGED <<vvars, svars, avars, wvars, jvars>>

PNext ==
  \/ dispatch_enter
  \/ \E memory_free \in BOOLEAN : dispatch_admit(memory_free)
  \/ \E w \in WorkerIds : worker_take(w)
  \/ \E w \in WorkerIds : worker_spawn(w)
  \/ \E j \in JobIds, exitcode \in {"exit0", "exit1"} : process_ends(j, exitcode)
  \/ \E j \in JobIds : watchdog_kills(j)
  \/ \E j \in JobIds, which \in {"seqkit", "cat"} : process_dies(j, which)
  \/ \E w \in WorkerIds : worker_collect(w)
  \/ \E w \in WorkerIds : worker_deadline(w)
  \/ \E w \in WorkerIds : worker_open_error(w)
  \/ \E w \in WorkerIds : worker_unexpected(w)
  \/ pool_return

SpecPool == PInit /\ [][PNext]_vars

\* the steps of the dispatcher, of the workers and of the operating system
\* on a killed process: what goes on when every process is scheduled
PoolProgress ==
  \/ dispatch_enter
  \/ \E memory_free \in BOOLEAN : dispatch_admit(memory_free)
  \/ \E w \in WorkerIds : worker_take(w)
  \/ \E w \in WorkerIds : worker_spawn(w)
  \/ \E w \in WorkerIds : worker_collect(w)
  \/ \E w \in WorkerIds : worker_deadline(w)
  \/ \E j \in JobIds, which \in {"seqkit", "cat"} : process_dies(j, which)
  \/ pool_return

\* a neighbour level handed to the pooled dispatcher: timeout=30 and
\* valid arguments
PDeadlineInit ==
  /\ ppc = "enter"
  /\ pentry = "pooled"
  /\ pmism = 0
  /\ pargs_ok = TRUE
  /\ ptimeout = NeighbourTimeout
  /\ nworkers \in 1 .. MaxWorkers
  /\ njobs \in 1 .. MaxCount
  /\ slot = [w \in 1 .. nworkers |-> 0]
  /\ jstate = [j \in 1 .. njobs |-> "queued"]
  /\ subproc = [j \in 1 .. njobs |-> "none"]
  /\ helper = [j \in 1 .. njobs |-> "none"]
  /\ presult = [j \in 1 .. njobs |-> "pending"]
  /\ cause = [j \in 1 .. njobs |-> ""]
  /\ padmit = 0
  /\ pexc = ""
  /\ vpc = "idle"
  /\ mode = ""
  /\ exc = ""
  /\ target_type = ""
  /\ count = 0
  /\ length = 0
  /\ files = {}
  /\ todo = {}
  /\ counters = ZeroCounters
  /\ entries = <<>>
  /\ summary = NoSummary
  /\ verdict = NoVerdict
  /\ probe = NoProbe
  /\ allZero = TRUE
  /\ first_line = <<>>
  /\ verdict_1 = NoVerdict
  /\ spc = "idle"
  /\ srole = "target"
  /\ mismatch = 0
  /\ nfiles = [role \in Roles |-> 0]
  /\ sjobs = <<>>
  /\ pool_results = <<>>
  /\ out_seqk = <<>>
  /\ written = {}
  /\ sexc = ""
  /\ pair = 0
  /\ npairs = 0
  /\ admitted = ""
  /\ apc = "idle"
  /\ required = 0
  /\ interval = 0
  /\ available = 0
  /\ elapsed = 0
  /\ polls = 0
  /\ sleeps = 0
  /\ wpc = "idle"
  /\ proc_state = "running"
  /\ threshold = 0
  /\ last_rss = 0
  /\ kill_called = FALSE
  /\ job_pc = "idle"
  /\ pid_of = "seqkit"
  /\ bound = ""
  /\ other_killed = FALSE

\* the dispatch of a neighbour level with the dispatcher, the workers and
\* killed processes scheduled; a subprocess may hang for ever
SpecPoolFair == PDeadlineInit /\ [][PNext]_vars /\ WF_vars(PoolProgress)

(* ----------------------------- properties ------------------------------ *)
\* C1: Sensitivity verdict (flavour "target").  For every result dict the
\* outcome is FAILED iff some level other than m3 is not marked passed (so a
\* dict whose only non-passing level is m3 gives PASSED), and the failing
\* levels returned are exactly the non-passing levels, m3 included, in the
\* order of the keys: only m3 failing gives "m3", m1 and m3 failing gives
\* FAILED with "m1, m3".
C1_SensitivityVerdict ==
  (vpc = "done" /\ target_type = "target") =>
     LET failing == {i \in 1 .. Len(entries) : entries[i].note # "passed"}
         levels == SelectSeq([i \in 1 .. Len(entries) |->
                                IF i \in failing THEN entries[i].m_no ELSE ""],
                             LAMBDA m : m # "")
     IN  /\ verdict.passed \in {"PASSED", "FAILED"}
         /\ verdict.passed = "FAILED" <=> \E i \in failing : entries[i].m_no # "m3"
         /\ verdict.fail_m = Join(levels)
         /\ (levels = <<"m3">>) => (verdict.passed = "PASSED" /\ verdict.fail_m = "m3")
         /\ (levels = <<"m1", "m3">>) =>
               (verdict.passed = "FAILED" /\ verdict.fail_m = "m1, m3")
         /\ verdict.ass_no = entries[Len(entries)].count

\* C1 witness: m0 and m1 passed and m3 failed, interpreted as PASSED with
\* "m3" for 2 assemblies
C1_Witness_OnlyM3Fails ==
  /\ vpc = "done" /\ target_type = "target"
  /\ Len(entries) = 3
  /\ entries[1].m_no = "m0" /\ entries[1].note = "passed"
  /\ entries[2].m_no = "m1" /\ entries[2].note = "passed"
  /\ entries[3].m_no = "m3" /\ entries[3].note = "failed"
  /\ verdict = [passed |-> "PASSED", ass_no |-> 2, fail_m |-> "m3"]

\* C2: Sensitivity per level (run_tests, target_type "target").  A level is
\* marked passed iff every assembly of the target collection produced exactly
\* one match record, of the expected amplicon length; otherwise failed.
C2_TargetLevelPassedIffEveryAssemblyOneHit ==
  (vpc = "run_tests" /\ target_type = "target" /\ entries # <<>>) =>
     (entries[Len(entries)].note = "passed" <=> probe.everyOne)

\* C3: Specificity (run_tests with target_type "neighbour", then interpret).
\* A level is marked passed iff no record of that level has an amplicon of
\* the expected length; the verdict is FAILED iff some level has at least one
\* such record, whatever the level.
C3_SpecificityLevelAndVerdict ==
  (target_type = "neighbour" /\ files # {}) =>
     /\ \A i \in 1 .. Len(entries) :
          entries[i].note = "passed" <=> entries[i].pa = 0
     /\ vpc = "done" =>
          (verdict.passed = "FAILED" <=> \E i \in 1 .. Len(entries) : entries[i].pa > 0)

\* C4: when every job behind every result file printed no match record, the
\* level's file being empty or absent, the Specificity verdict is PASSED and
\* the Sensitivity verdict is FAILED.
C4_ZeroRecordsVerdicts ==
  (vpc = "done" /\ allZero) =>
     /\ target_type = "neighbour" => verdict.passed = "PASSED"
     /\ target_type = "target" => verdict.passed = "FAILED"

\* C5: a job that did not end with exit code 0 (non-zero exit, timeout,
\* killed by the memory watchdog) is a non-hit for Sensitivity, so its level
\* is not marked passed, and adds no hit to the Specificity tally of its
\* level: the correct-size count of the level is the one of the jobs that
\* ended with exit code 0.
C5_FailedJobIsNoHit ==
  (vpc = "run_tests" /\ entries # <<>> /\ probe.nonSucc) =>
     /\ target_type = "target" => entries[Len(entries)].note # "passed"
     /\ target_type = "neighbour" => entries[Len(entries)].pa = probe.succHits

\* C6: when the sweep is over, every attempted level (0..3 for targets, 0..4
\* for neighbours) has its result file, also when every job of the level
\* failed or found no match.
C6_EveryLevelHasAnEntry ==
  spc = "swept" => \A role \in Roles : \A l \in Levels(role) : <<role, l>> \in written

\* C7: when every job of some level failed (the level's result file is
\* absent), the run of generate_results still ends with a verdict and not
\* with an error; the Sensitivity verdict is FAILED when that level is a
\* target level in 0..2, and the Specificity verdict is PASSED when no level
\* present has a correct-size hit.
C7_AllJobsFailedStillVerdict ==
  (mode = "run" /\ count >= 1) =>
     /\ (target_type = "target" /\ 0 \notin files) => vpc # "error"
     /\ (vpc = "done" /\ target_type = "target" /\ (0 .. 2) \ files # {}) =>
           verdict.passed = "FAILED"
     /\ (vpc = "done" /\ target_type = "neighbour" /\ NeighbourLevels \ files # {}
           /\ \A i \in 1 .. Len(entries) : entries[i].pa <= 0) =>
           verdict.passed = "PASSED"

\* C8: the dispatcher returns exactly one outcome per job it was given: a
\* job that timed out, raised or was killed is still in the returned list.
C8_OneOutcomePerJob ==
  spc = "returned" => Len(out_seqk) = Len(sjobs)

\* C9: a job whose subprocess exits with a non-zero code has a failed
\* outcome (the worker returns None for it) and nothing else happens: the
\* dispatcher returns unless another job could not read its file.
C9_NonZeroExitIsFailedOutcome ==
  \A i \in 1 .. Len(sjobs) :
     sjobs[i].exit = "nonzero" =>
        /\ spc = "returned" => pool_results[i].none
        /\ spc = "aborted" => \E k \in 1 .. Len(sjobs) : sjobs[k].exit = "open_error"

\* C10: when one assembly file cannot be opened or read, only that job
\* fails: main is not ended by it.
C10_UnreadableFileDoesNotAbort ==
  (\E i \in 1 .. Len(sjobs) : sjobs[i].exit = "open_error") => spc # "aborted"
\* C19: when no result file of a role is found, run_tests returns the
\* all-"NA" structure and the verdict of the role is an outcome of its own,
\* neither PASSED nor FAILED.
C19_NoFilesGivesNAVerdict ==
  (vpc = "done" /\ files = {}) =>
     /\ entries = <<NAEntry>>
     /\ summary = NoSummary
     /\ verdict.passed \notin {"PASSED", "FAILED"}

\* C20: when no neighbour result file exists, the Specificity verdict is
\* PASSED, its number of assemblies is the cardinality of the neighbour
\* collection, and its list of failing levels is empty.
C20_NoNeighbourFilesVerdict ==
  (vpc = "done" /\ target_type = "neighbour" /\ files = {}) =>
     verdict = [passed |-> "PASSED", ass_no |-> count, fail_m |-> ""]
\* C13: wait_for_memory returns only after a poll that read available
\* memory >= min_available, without any sleep when that is the first poll;
\* while the polls read less it sleeps CHECK_INTERVAL between two polls, and
\* it raises TimeoutError, after a poll that read too little, once more than
\* 21600 s have passed; it never goes back to sleep after that.
C13_WaitForMemory ==
  (apc # "idle") =>
     /\ apc = "returned" => (available >= required /\ sleeps = polls - 1)
     /\ (apc = "returned" /\ polls = 1) => (sleeps = 0 /\ elapsed = 0)
     /\ apc = "timeout" =>
          (available < required /\ elapsed > MemoryTimeout /\ sleeps = polls - 1)
     /\ apc = "sleep" =>
          (available < required /\ elapsed <= MemoryTimeout /\ sleeps = polls - 1)
     /\ apc = "poll" => sleeps = polls
     /\ elapsed >= sleeps * interval
     /\ elapsed <= sleeps * (interval + 1)

\* C13 witness: TimeoutError after at least two sleeps
C13_Witness_TimeoutAfterSleeps ==
  apc = "timeout" /\ sleeps >= 2 /\ polls = sleeps + 1 /\ elapsed > MemoryTimeout
\* C15: monitor_memory calls proc.kill() iff a poll read a resident set size
\* above the threshold, and then returns; a process whose polls all read at
\* most the threshold is never killed; when the process has exited before or
\* during the polling the function returns; no exception leaves it, and it
\* changes nothing but the monitored process, by the kill.
C15_WatchdogKillsIffOverThreshold ==
  [](/\ kill_called => (last_rss > threshold /\ wpc = "returned")
     /\ proc_state = "killed" => kill_called
     /\ (last_rss > threshold /\ wpc \notin {"kill", "idle"}) => kill_called
     /\ wpc = "kill" => last_rss > threshold
     /\ wpc = "sleep" => last_rss <= threshold
     /\ wpc \in {"idle", "lookup", "test", "read", "kill", "sleep", "returned"})
  /\ [][/\ UNCHANGED <<vvars, svars, avars, pvars, threshold>>
        /\ proc_state' # proc_state =>
             \/ (proc_state = "running" /\ proc_state' = "exited" /\ UNCHANGED wpc)
             \/ (proc_state = "running" /\ proc_state' = "killed" /\ wpc = "kill")
        /\ (proc_state # "running" /\ wpc \in {"lookup", "test", "read"}) =>
             (wpc' = "returned" /\ ~kill_called')]_vars

\* C15 witness: the process was killed after a poll that read one unit more
\* than the threshold
C15_Witness_Killed ==
  wpc = "returned" /\ proc_state = "killed" /\ kill_called /\ last_rss = threshold + 1

C12_AdmissionBeforeEachJob ==
  pentry = "pooled" =>
    Cardinality({j \in JobIds : subproc[j] # "none"}) <= padmit

\* C14: when wait_for_memory times out, main is over with a non-zero exit
\* status: no job of the level was started, no result of the level was
\* kept or written, and no step follows, neither for a later level nor for
\* a later primer file.
C14_AdmissionTimeoutAbortsRun ==
  /\ [](admitted = "timeout" =>
          /\ spc = "aborted"
          /\ ExitStatus # 0
          /\ sjobs = <<>>
          /\ pool_results = <<>>
          /\ out_seqk = <<>>
          /\ <<srole, mismatch>> \notin written)
  /\ [][admitted # "timeout"]_vars

\* C14 witness: the admission check timed out at a level that has later
\* levels, a later loop and a later primer file, after a file was written
C14_Witness_TimeoutMidRun ==
  /\ admitted = "timeout"
  /\ spc = "aborted"
  /\ srole = "target"
  /\ mismatch = 1
  /\ pair < npairs
  /\ written = {<<"target", 0>>}

\* C16: with one worker slot (a Pool of one process, or the caller of the
\* single-process function), while the worker is on a job no other job has
\* a seqkit or cat process that has not ended.
C16_NextJobAfterTermination ==
  (nworkers = 1 /\ slot[1] # 0) =>
    \A k \in JobIds \ {slot[1]} :
      /\ subproc[k] \in {"none", "dead"}
      /\ helper[k] \in {"none", "dead"}

\* C17: while the Pool maps a level, the seqkit subprocesses that have
\* been started and have not ended are at most max_workers.
C17_LiveSubprocessesBounded ==
  (pentry = "pooled" /\ ppc = "map") => Cardinality(LiveProcesses) <= nworkers

\* C18: with a negative mismatch or an empty primer or path, neither entry
\* point ever starts a subprocess: the call is rejected before any Popen.
C18_InvalidArgumentsRejected ==
  ~ArgumentsValid => \A j \in JobIds : subproc[j] = "none"

\* C21: in a Specificity verdict reached from at least one result file, the
\* failing-levels string names exactly the levels with at least one record
\* of the expected amplicon length, in the order they were read; a level
\* without such a record is not in it.
C21_SpecificityFailingLevels ==
  (vpc = "done" /\ target_type = "neighbour" /\ files # {}) =>
     LET hit[i \in 0 .. Len(entries)] ==
           IF i = 0 THEN <<>>
           ELSE IF entries[i].pa > 0 THEN Append(hit[i - 1], entries[i].m_no)
           ELSE hit[i - 1]
     IN  verdict.fail_m = Join(hit[Len(entries)])

\* C22: with an expected count of 0 (an empty assembly collection, no job
\* and no result file) Summarize_results ends with a verdict, and the
\* verdict is PASSED, for targets and for neighbours.
C22_EmptyCollectionPasses ==
  (count = 0 /\ vpc \in {"done", "error"}) =>
     /\ vpc = "done"
     /\ verdict.passed = "PASSED"

\* C26: in the summary run_tests returns, the number of files that passed
\* is the number of entries marked passed, the number of files that failed
\* is the number of entries marked failed, and the two add up to the number
\* of files tested.
C26_SummaryCountersMatchNotes ==
  (vpc \in {"interpret", "done"} /\ files # {}) =>
     /\ summary.n_passed =
          Cardinality({i \in 1 .. Len(entries) : entries[i].note = "passed"})
     /\ summary.n_failed =
          Cardinality({i \in 1 .. Len(entries) : entries[i].note = "failed"})
     /\ summary.n_passed + summary.n_failed = summary.no_files

\* C29: the mark of a level does not depend on the files run_tests read
\* before it: it is the mark the file gets when it is read first, with the
\* counter of passed files still at 0.
C29_MarkIndependentOfOrder ==
  (vpc \in {"run_tests", "interpret", "done"} /\ files # {}) =>
     \A i \in 1 .. Len(entries) :
        entries[i].note = NoteOf(target_type, count, 0, entries[i].pa)

\* C23: a record with fewer than 7 columns never raises, also when it is
\* the first line of the m0 target file, from which the expected amplicon
\* length is taken: Summarize_results does not end with an IndexError on it.
C23_MalformedRecordNeverRaises ==
  (first_line # <<>> /\ first_line.kind = "line"
     /\ first_line.line.ncols < MinColumns) =>
        (vpc # "error" /\ exc = "")

C28_DispatchEndsUnderDeadline ==
  (pentry = "pooled" /\ ppc = "map" /\ ptimeout # NoTimeout) ~>
     (ppc \in {"returned", "raised"} /\ \A j \in JobIds : jstate[j] = "done")

\* C28 witness: the dispatch returned after one job ran into the deadline
\* and another was killed by its watchdog
C28_Witness_ReturnedAfterHangAndKill ==
  /\ pentry = "pooled"
  /\ ppc = "returned"
  /\ \E j \in JobIds, k \in JobIds :
       /\ cause[j] = "deadline" /\ presult[j] = "none"
       /\ cause[k] = "watchdog" /\ presult[k] = "output"

\* C27: when the worker has returned the outcome of a job, the watchdog
\* thread of the job has ended.
C27_WatchdogEndedWhenJobReturns ==
  job_pc = "returned" => wpc = "returned"

\* C30: proc.kill() of a watchdog never ends a process other than the
\* seqkit subprocess of its job.
C30_WatchdogKillsOnlyItsSubprocess ==
  ~other_killed

====
